---- MODULE Spec2Model ----
(***************************************************************************)
(* Model of assets/js/storage.js: OfflineStorageService, a CRUD shim over  *)
(* the browser's localStorage.                                             *)
(*                                                                         *)
(* A stored item is a text: a sequence of JSON tokens.  JSON.stringify and *)
(* JSON.parse are modelled as a printer and a recursive-descent reader of  *)
(* such texts.  A record is a function from field names to strings; a      *)
(* value stored under the players key is a "players value": either an      *)
(* array of records or a JSON value that is no array (the object {}).      *)
(***************************************************************************)
EXTENDS Naturals, Sequences, FiniteSets, TLC

\* ------------------------------------------------------------------ bounds

\* create does not append to a collection that already holds MaxLen records
MaxLen == 2

\* at most MaxCalls calls are made while a promise is pending
MaxCalls == 3

\* ------------------------------------------------------------- data model

\* storage.js:20-24
STORAGE_KEYS == [PLAYERS |-> "xnroot_players",
                 CURRENT_PLAYER |-> "xnroot_current_player",
                 SETTINGS |-> "xnroot_settings"]

\* the two OfflineStorageService objects the script constructs (450, 381)
Instances == {"offlineStorage", "offlineService"}

\* the identifiers _generateId may return
Ids == {"x1", "x2"}

\* the order in which the printer emits the keys of an object
KeyOrder == <<"__backendId", "name", "theme">>

Brackets == {"[", "]", "{", "}"}

\* the whitespace JSON.stringify(data, null, 2) puts between tokens
NL == "\n"

EmptyObj == [k \in {} |-> ""]

WithField(o, k, v) == [x \in DOMAIN o \cup {k} |-> IF x = k THEN v ELSE o[x]]

R(id, name) == WithField(WithField(EmptyObj, "name", name), "__backendId", id)

\* the records callers submit: one without an identifier, one that carries an
\* identifier and a name, one that carries an identifier alone
Records ==
  {WithField(EmptyObj, "name", "A"), R("x1", "B"), WithField(EmptyObj, "__backendId", "x2")}

\* JSON values that can stand under the players key
ArrayOf(items) == [isArray |-> TRUE, items |-> items]
NotArray == [isArray |-> FALSE, items |-> <<>>]

\* !record.__backendId
HasId(r) == "__backendId" \in DOMAIN r

\* -------------------------------------------------- JSON.stringify / parse

RECURSIVE ObjFields(_, _)
ObjFields(o, i) ==
  IF i > Len(KeyOrder) THEN <<>>
  ELSE (IF KeyOrder[i] \in DOMAIN o THEN <<KeyOrder[i], o[KeyOrder[i]]>> ELSE <<>>)
       \o ObjFields(o, i + 1)

\* JSON.stringify of a flat object
StringifyObj(o) == <<"{">> \o ObjFields(o, 1) \o <<"}">>

RECURSIVE StringifyItems(_)
StringifyItems(items) ==
  IF items = <<>> THEN <<>>
  ELSE StringifyObj(Head(items)) \o StringifyItems(Tail(items))

\* JSON.stringify of a players value
StringifyPlayers(v) ==
  IF v.isArray THEN <<"[">> \o StringifyItems(v.items) \o <<"]">>
  ELSE <<"{", "}">>

\* JSON.stringify(data, null, 2): the same tokens, a line break after each
RECURSIVE Indent(_)
Indent(text) ==
  IF text = <<>> THEN <<>> ELSE <<Head(text), NL>> \o Indent(Tail(text))

\* the reader skips whitespace
Strip(text) == SelectSeq(text, LAMBDA t : t # NL)

Failed == [ok |-> FALSE, val |-> EmptyObj, next |-> 0]

\* reads key/value pairs from position i up to the closing brace
RECURSIVE ReadFields(_, _, _)
ReadFields(t, i, acc) ==
  IF i > Len(t) THEN Failed
  ELSE IF t[i] = "}" THEN [ok |-> TRUE, val |-> acc, next |-> i + 1]
  ELSE IF t[i] \in Brackets \/ i + 1 > Len(t) THEN Failed
  ELSE IF t[i + 1] \in Brackets THEN Failed
  ELSE ReadFields(t, i + 2, WithField(acc, t[i], t[i + 1]))

\* reads a flat object that starts at position i
ReadObj(t, i) ==
  IF i <= Len(t) /\ t[i] = "{" THEN ReadFields(t, i + 1, EmptyObj) ELSE Failed

FailedArr == [ok |-> FALSE, val |-> NotArray, next |-> 0]

\* reads objects from position i up to the closing bracket
RECURSIVE ReadItems(_, _, _)
ReadItems(t, i, acc) ==
  IF i > Len(t) THEN FailedArr
  ELSE IF t[i] = "]" THEN [ok |-> TRUE, val |-> ArrayOf(acc), next |-> i + 1]
  ELSE LET o == ReadObj(t, i)
       IN IF o.ok THEN ReadItems(t, o.next, Append(acc, o.val)) ELSE FailedArr

\* reads a players value (an array of objects, or the object {}) at position i
ReadPlayers(t, i) ==
  IF i > Len(t) THEN FailedArr
  ELSE IF t[i] = "[" THEN ReadItems(t, i + 1, <<>>)
  ELSE LET o == ReadObj(t, i)
       IN IF o.ok /\ o.val = EmptyObj
          THEN [ok |-> TRUE, val |-> NotArray, next |-> o.next]
          ELSE FailedArr

\* JSON.parse of the text under the players key: throws (ok = FALSE) on a
\* text that is no JSON value
ParsePlayers(text) ==
  LET t == Strip(text)
      r == ReadPlayers(t, 1)
  IN IF r.ok /\ r.next = Len(t) + 1 THEN [ok |-> TRUE, val |-> r.val]
     ELSE [ok |-> FALSE, val |-> NotArray]

\* JSON.parse of the text under the settings key
ParseSettings(text) ==
  LET t == Strip(text)
      r == ReadObj(t, 1)
  IN IF r.ok /\ r.next = Len(t) + 1 THEN [ok |-> TRUE, val |-> r.val]
     ELSE [ok |-> FALSE, val |-> EmptyObj]


\* ------------------------------------------------------ exported snapshot

Dark == WithField(EmptyObj, "theme", "dark")

\* the value of new Date().toISOString() at an export
Dates == {"2024-01-01T00:00:00.000Z"}

\* JSON.stringify of { players, settings, exportDate }, a field left out when
\* hasP / hasS is FALSE
StringifySnapshot(hasP, p, hasS, s, date) ==
  <<"{">>
  \o (IF hasP THEN <<"players">> \o StringifyPlayers(p) ELSE <<>>)
  \o (IF hasS THEN <<"settings">> \o StringifyObj(s) ELSE <<>>)
  \o <<"exportDate", date, "}">>

NoData == [ok |-> FALSE, isNull |-> FALSE, hasPlayers |-> FALSE, players |-> NotArray,
           hasSettings |-> FALSE, settings |-> EmptyObj]

\* reads the fields of a snapshot object from position i; a field whose value
\* is null is falsy, as an absent one is
RECURSIVE ReadSnapshot(_, _, _)
ReadSnapshot(t, i, acc) ==
  IF i > Len(t) THEN NoData
  ELSE IF t[i] = "}"
       THEN (IF i = Len(t) THEN acc ELSE NoData)
  ELSE IF t[i] \in Brackets \/ i + 1 > Len(t) THEN NoData
  ELSE IF t[i + 1] = "null" THEN ReadSnapshot(t, i + 2, acc)
  ELSE IF t[i] = "players"
       THEN LET r == ReadPlayers(t, i + 1)
            IN IF r.ok
               THEN ReadSnapshot(t, r.next,
                                 [acc EXCEPT !.hasPlayers = TRUE, !.players = r.val])
               ELSE NoData
  ELSE IF t[i] = "settings"
       THEN LET r == ReadObj(t, i + 1)
            IN IF r.ok
               THEN ReadSnapshot(t, r.next,
                                 [acc EXCEPT !.hasSettings = TRUE, !.settings = r.val])
               ELSE NoData
  ELSE IF t[i + 1] \in Brackets THEN NoData
  ELSE ReadSnapshot(t, i + 2, acc)

\* JSON.parse(jsonString) in importData: ok = FALSE when it throws; isNull when
\* the text is the JSON value null
ParseSnapshot(text) ==
  LET t == Strip(text)
  IN IF t = <<"null">> THEN [NoData EXCEPT !.ok = TRUE, !.isNull = TRUE]
     ELSE IF t # <<>> /\ t[1] = "{"
          THEN ReadSnapshot(t, 2, [NoData EXCEPT !.ok = TRUE])
          ELSE NoData


\* ------------------------------------------------------------------ state

VARIABLES
  localStorage,   \* the browser's store: a function from the keys present to texts
  initialized,    \* this.initialized of each instance
  dataHandler,    \* this.dataHandler of each instance
  exported,       \* the text the latest exportData returned (<<>>: none yet)
  exportedFrom,   \* the store as it was when that text was produced
  last,           \* the latest call: its arguments, its result, its notification
  before,         \* the store as it was when the latest call was made
  mode,           \* this.mode of the mode manager
  onlineAvailable,\* this.onlineAvailable of the mode manager
  dataSdk,        \* whether window.dataSdk is bound
  answer,         \* the latest call of the mode manager and what it returned
  pending,        \* the promises of calls that the caller has not yet seen settle
  issued,         \* the calls made since no promise was pending, in issue order
  base            \* the persisted collection when the first of them was made

managerVars == <<mode, onlineAvailable, dataSdk, answer>>
asyncVars == <<pending, issued, base>>

vars == <<localStorage, initialized, dataHandler, exported, exportedFrom, last, before,
          mode, onlineAvailable, dataSdk, answer, pending, issued, base>>

PLAYERS == STORAGE_KEYS.PLAYERS
CURRENT_PLAYER == STORAGE_KEYS.CURRENT_PLAYER
SETTINGS == STORAGE_KEYS.SETTINGS

\* what init may be handed: no usable handler (null, or an object without
\* onDataChanged), a handler that returns, a handler whose onDataChanged throws
NoHandler == "none"
GoodHandlers == {NoHandler, "listens"}
AllHandlers == GoodHandlers \cup {"throws"}

\* localStorage.getItem(key) is truthy
hasItem(ls, key) == key \in DOMAIN ls /\ ls[key] # <<>>

setItem(ls, key, text) == [k \in DOMAIN ls \cup {key} |-> IF k = key THEN text ELSE ls[k]]

\* removeItem as a slip would have it: the item stays
removeNothing(ls, key) == ls

removeItem(ls, key) == [k \in DOMAIN ls \ {key} |-> ls[k]]

\* _initializeStorage as a slip would have it: the settings are written afresh
\* whether or not the store holds some
initializeStorageAfresh(ls, wp, ws) ==
  IF ~hasItem(ls, PLAYERS) /\ ~wp THEN [thrown |-> TRUE, ls |-> ls]
  ELSE LET ls1 == IF ~hasItem(ls, PLAYERS)
                  THEN setItem(ls, PLAYERS, StringifyPlayers(ArrayOf(<<>>)))
                  ELSE ls
       IN IF ~ws THEN [thrown |-> TRUE, ls |-> ls1]
          ELSE [thrown |-> FALSE, ls |-> setItem(ls1, SETTINGS, StringifyObj(EmptyObj))]

\* storage.js:84-91; wp, ws: whether the setItem of the players / settings key
\* returns (TRUE) or throws (FALSE).  thrown: the exception leaves the method.
initializeStorage(ls, wp, ws) ==
  IF ~hasItem(ls, PLAYERS) /\ ~wp THEN [thrown |-> TRUE, ls |-> ls]
  ELSE LET ls1 == IF ~hasItem(ls, PLAYERS)
                  THEN setItem(ls, PLAYERS, StringifyPlayers(ArrayOf(<<>>)))
                  ELSE ls
       IN IF ~hasItem(ls1, SETTINGS) /\ ~ws THEN [thrown |-> TRUE, ls |-> ls1]
          ELSE [thrown |-> FALSE,
                ls |-> IF ~hasItem(ls1, SETTINGS)
                       THEN setItem(ls1, SETTINGS, StringifyObj(EmptyObj))
                       ELSE ls1]

\* the catch as a slip would have it: a text that cannot be decoded is handed
\* on as a value that is no array
getAllPlayersUndecoded(ls) ==
  IF hasItem(ls, PLAYERS)
  THEN LET p == ParsePlayers(ls[PLAYERS])
       IN IF p.ok THEN p.val ELSE NotArray
  ELSE ArrayOf(<<>>)

\* storage.js:103-111
getAllPlayers(ls) ==
  IF hasItem(ls, PLAYERS)
  THEN LET p == ParsePlayers(ls[PLAYERS])
       IN IF p.ok THEN p.val ELSE ArrayOf(<<>>)
  ELSE ArrayOf(<<>>)

\* _saveAllPlayers as a slip would have it: the text is in the store although
\* the write is reported as failed
saveAllPlayersTorn(ls, players, w) ==
  [saved |-> w, ls |-> setItem(ls, PLAYERS, StringifyPlayers(players))]

\* storage.js:116-124; w: whether setItem returns or throws
saveAllPlayers(ls, players, w) ==
  IF w THEN [saved |-> TRUE, ls |-> setItem(ls, PLAYERS, StringifyPlayers(players))]
  ELSE [saved |-> FALSE, ls |-> ls]

\* p.__backendId === record.__backendId
SameId(p, record) ==
  HasId(p) /\ HasId(record) /\ p["__backendId"] = record["__backendId"]

\* findIndex as a slip would have it: -1 taken for the last position
findIndexOrLast(items, record) ==
  IF \E j \in 1..Len(items) : SameId(items[j], record)
  THEN CHOOSE j \in 1..Len(items) : SameId(items[j], record)
  ELSE Len(items)

\* players.findIndex(p => p.__backendId === record.__backendId); 0 stands for -1
findIndex(items, record) ==
  IF \E j \in 1..Len(items) : SameId(items[j], record)
  THEN CHOOSE j \in 1..Len(items) :
         /\ SameId(items[j], record)
         /\ \A k \in 1..(j - 1) : ~SameId(items[k], record)
  ELSE 0

\* filter as a slip would have it: a record without identifier is dropped too
filterOutLoose(items, record) ==
  SelectSeq(items, LAMBDA p : HasId(p) /\ ~SameId(p, record))

\* players.filter(p => p.__backendId !== record.__backendId)
filterOut(items, record) == SelectSeq(items, LAMBDA p : ~SameId(p, record))

NoError == "none"
NotInitialized == "Storage not initialized. Call init() first."
MissingId == "Record must have __backendId"
NotFound == "Record not found"
SaveFailed == "Failed to save to localStorage"
TypeError == "TypeError"
SyntaxError == "SyntaxError"
QuotaExceeded == "QuotaExceededError"
HandlerError == "thrown by onDataChanged"

NoCall == [op |-> "none", inst |-> "none", rec |-> EmptyObj, text |-> <<>>,
           ready |-> FALSE, afterClear |-> FALSE, ok |-> TRUE, err |-> NoError, notified |-> FALSE,
           payload |-> ArrayOf(<<>>), data |-> ArrayOf(<<>>)]

\* The fields of last: op, inst, rec / text (the call and its argument), ready
\* (this.initialized when the call was made), ok (the result is a success, true,
\* or a text), err (the error of a failure), notified / payload (whether
\* onDataChanged was called, and with what), data (the payload of a success),
\* afterClear (the call before this one was a clearAll).

\* a call that returns a failure before it notifies
Fails(op, i, rec, text, err) ==
  [NoCall EXCEPT !.op = op, !.inst = i, !.rec = rec, !.text = text,
                 !.ready = initialized[i], !.afterClear = (last.op = "clearAll"),
                 !.ok = FALSE, !.err = err]

\* if (this.dataHandler && this.dataHandler.onDataChanged) onDataChanged(payload),
\* then the return: a handler that throws turns the result into a failure
Notifies(op, i, rec, text, handler, payload) ==
  [NoCall EXCEPT !.op = op, !.inst = i, !.rec = rec, !.text = text,
                 !.ready = initialized[i], !.afterClear = (last.op = "clearAll"),
                 !.ok = (handler # "throws"),
                 !.err = IF handler = "throws" THEN HandlerError ELSE NoError,
                 !.notified = (handler # NoHandler),
                 !.payload = IF handler # NoHandler THEN payload ELSE ArrayOf(<<>>)]


\* what getActiveService returns: window.dataSdk or this.offlineService
RemoteService == "dataSdk"
LocalService == "offlineService"

\* storage.js:407: the values setMode accepts
Modes == {"auto", "online", "offline"}

NoAnswer == [op |-> "none", arg |-> "", ret |-> FALSE, service |-> "none",
             modeWas |-> "auto", flagWas |-> FALSE, sdkWas |-> FALSE,
             stats |-> ArrayOf(<<>>)]

\* The fields of answer: op, arg (the call and its argument), ret (the boolean
\* returned), service (the service returned or reported), stats (the collection
\* getStats counted), modeWas / flagWas / sdkWas (this.mode, this.onlineAvailable
\* and the binding of window.dataSdk when the call was made).
Asked(op, arg, ret, service) ==
  [NoAnswer EXCEPT !.op = op, !.arg = arg, !.ret = ret, !.service = service,
                   !.modeWas = mode, !.flagWas = onlineAvailable, !.sdkWas = dataSdk]

\* ---------------------------------------------------------------- actions

\* storage.js:72-79, 379-383, 450-451: the instances and the mode manager are
\* constructed on a store that holds nothing of this module but the
\* current-player item, which another part of the application writes; no
\* remote backend is bound yet
Init ==
  /\ localStorage = setItem(initializeStorage(EmptyObj, TRUE, TRUE).ls, CURRENT_PLAYER,
                            StringifyObj(WithField(EmptyObj, "name", "A")))
  /\ initialized = [i \in Instances |-> FALSE]
  /\ dataHandler = [i \in Instances |-> NoHandler]
  /\ exported = <<>>
  /\ exportedFrom = EmptyObj
  /\ last = NoCall
  /\ before = localStorage
  /\ mode = "auto"
  /\ onlineAvailable = FALSE
  /\ dataSdk = FALSE
  /\ answer = NoAnswer
  /\ pending = <<>>
  /\ issued = <<>>
  /\ base = ArrayOf(<<>>)

\* init as a slip would have it: the handler and the flag are kept once for
\* all instances
initAll(i, handler) ==
  /\ dataHandler' = [j \in Instances |-> handler]
  /\ initialized' = [j \in Instances |-> TRUE]
  /\ last' = Notifies("init", i, EmptyObj, <<>>, handler, getAllPlayers(localStorage))
  /\ UNCHANGED localStorage

\* storage.js:129-148
init(i, handler) ==
  /\ dataHandler' = [dataHandler EXCEPT ![i] = handler]
  /\ initialized' = [initialized EXCEPT ![i] = TRUE]
  /\ last' = Notifies("init", i, EmptyObj, <<>>, handler, getAllPlayers(localStorage))
  /\ UNCHANGED localStorage

\* storage.js:96-98: Date.now() and Math.random() decide the identifier;
\* nothing compares it with the identifiers in use
generateId == Ids

\* the initialized check as a slip would have it: never taken
neverNotReady(i) == FALSE

\* if (!this.initialized) throw new Error('Storage not initialized. ...')
notReady(i) == ~initialized[i]

\* storage.js:153-187
create(i, record, id, w) ==
  LET players == getAllPlayers(localStorage)
      newRecord == WithField(record, "__backendId", id)
      pushed == ArrayOf(Append(players.items, newRecord))
      s == saveAllPlayers(localStorage, pushed, w)
  IN /\ (~notReady(i) /\ players.isArray) => Len(players.items) < MaxLen
     /\ IF notReady(i)
        THEN /\ last' = Fails("create", i, record, <<>>, NotInitialized)
             /\ UNCHANGED localStorage
        ELSE IF ~players.isArray
        THEN /\ last' = Fails("create", i, record, <<>>, TypeError)
             /\ UNCHANGED localStorage
        ELSE IF ~s.saved
        THEN /\ last' = Fails("create", i, record, <<>>, SaveFailed)
             /\ localStorage' = s.ls
        ELSE /\ localStorage' = s.ls
             /\ last' = Notifies("create", i, record, <<>>, dataHandler[i], pushed)
     /\ UNCHANGED <<initialized, dataHandler>>

\* the replacement as a slip would have it: the first entry is overwritten
replaceAtFirst(items, index, record) == [items EXCEPT ![1] = record]

\* the replacement as another slip would have it: the submitted fields are
\* merged into the old entry
mergeAt(items, index, record) ==
  [items EXCEPT ![index] =
     [k \in DOMAIN items[index] \cup DOMAIN record |->
        IF k \in DOMAIN record THEN record[k] ELSE items[index][k]]]

\* players[index] = { ...record }
replaceAt(items, index, record) == [items EXCEPT ![index] = record]

\* storage.js:192-228
update(i, record, w) ==
  LET players == getAllPlayers(localStorage)
      index == findIndex(players.items, record)
      replaced == ArrayOf(replaceAt(players.items, index, record))
      s == saveAllPlayers(localStorage, replaced, w)
  IN /\ IF notReady(i)
        THEN /\ last' = Fails("update", i, record, <<>>, NotInitialized)
             /\ UNCHANGED localStorage
        ELSE IF ~HasId(record)
        THEN /\ last' = Fails("update", i, record, <<>>, MissingId)
             /\ UNCHANGED localStorage
        ELSE IF ~players.isArray
        THEN /\ last' = Fails("update", i, record, <<>>, TypeError)
             /\ UNCHANGED localStorage
        ELSE IF index = 0
        THEN /\ last' = Fails("update", i, record, <<>>, NotFound)
             /\ UNCHANGED localStorage
        ELSE IF ~s.saved
        THEN /\ last' = Fails("update", i, record, <<>>, SaveFailed)
             /\ localStorage' = s.ls
        ELSE /\ localStorage' = s.ls
             /\ last' = Notifies("update", i, record, <<>>, dataHandler[i], replaced)
     /\ UNCHANGED <<initialized, dataHandler>>

\* storage.js:233-267
delete(i, record, w) ==
  LET players == getAllPlayers(localStorage)
      filteredPlayers == ArrayOf(filterOut(players.items, record))
      s == saveAllPlayers(localStorage, filteredPlayers, w)
  IN /\ IF notReady(i)
        THEN /\ last' = Fails("delete", i, record, <<>>, NotInitialized)
             /\ UNCHANGED localStorage
        ELSE IF ~HasId(record)
        THEN /\ last' = Fails("delete", i, record, <<>>, MissingId)
             /\ UNCHANGED localStorage
        ELSE IF ~players.isArray
        THEN /\ last' = Fails("delete", i, record, <<>>, TypeError)
             /\ UNCHANGED localStorage
        ELSE IF Len(players.items) = Len(filteredPlayers.items)
        THEN /\ last' = Fails("delete", i, record, <<>>, NotFound)
             /\ UNCHANGED localStorage
        ELSE IF ~s.saved
        THEN /\ last' = Fails("delete", i, record, <<>>, SaveFailed)
             /\ localStorage' = s.ls
        ELSE /\ localStorage' = s.ls
             /\ last' = Notifies("delete", i, record, <<>>, dataHandler[i], filteredPlayers)
     /\ UNCHANGED <<initialized, dataHandler>>

\* storage.js:272-288
read(i) ==
  /\ last' = IF notReady(i)
             THEN Fails("read", i, EmptyObj, <<>>, NotInitialized)
             ELSE [NoCall EXCEPT !.op = "read", !.inst = i, !.ready = TRUE,
                                 !.afterClear = (last.op = "clearAll"),
                                 !.data = getAllPlayers(localStorage)]
  /\ UNCHANGED <<localStorage, initialized, dataHandler>>

\* storage.js:293-311
clearAll(i, wp, ws) ==
  LET removed == removeItem(removeItem(localStorage, PLAYERS), CURRENT_PLAYER)
      r == initializeStorage(removed, wp, ws)
  IN /\ localStorage' = r.ls
     /\ last' = IF r.thrown
                THEN Fails("clearAll", i, EmptyObj, <<>>, QuotaExceeded)
                ELSE Notifies("clearAll", i, EmptyObj, <<>>, dataHandler[i], ArrayOf(<<>>))
     /\ UNCHANGED <<initialized, dataHandler>>

\* storage.js:316-328
exportData(i, date) ==
  LET settings == IF hasItem(localStorage, SETTINGS)
                  THEN ParseSettings(localStorage[SETTINGS])
                  ELSE ParseSettings(StringifyObj(EmptyObj))
      text == Indent(StringifySnapshot(TRUE, getAllPlayers(localStorage),
                                       TRUE, settings.val, date))
  IN /\ IF settings.ok
        THEN /\ exported' = text
             /\ exportedFrom' = localStorage
             /\ last' = [NoCall EXCEPT !.op = "exportData", !.inst = i, !.text = text,
                                      !.ready = initialized[i],
                                      !.afterClear = (last.op = "clearAll")]
        ELSE /\ last' = Fails("exportData", i, EmptyObj, <<>>, SyntaxError)
             /\ UNCHANGED <<exported, exportedFrom>>
     /\ UNCHANGED <<localStorage, initialized, dataHandler>>

\* the players test as a slip would have it: an empty array taken for absent
nonEmptyPlayers(data) == data.hasPlayers /\ data.players.items # <<>>

\* if (data.players)
truthyPlayers(data) == data.hasPlayers

\* if (data.settings)
truthySettings(data) == data.hasSettings

\* storage.js:333-358
importData(i, jsonString, wp, ws) ==
  LET data == ParseSnapshot(jsonString)
      ls1 == IF truthyPlayers(data)
             THEN setItem(localStorage, PLAYERS, StringifyPlayers(data.players))
             ELSE localStorage
      ls2 == IF truthySettings(data)
             THEN setItem(ls1, SETTINGS, StringifyObj(data.settings))
             ELSE ls1
  IN /\ IF ~data.ok
        THEN /\ last' = Fails("importData", i, EmptyObj, jsonString, SyntaxError)
             /\ UNCHANGED localStorage
        ELSE IF data.isNull
        THEN /\ last' = Fails("importData", i, EmptyObj, jsonString, TypeError)
             /\ UNCHANGED localStorage
        ELSE IF truthyPlayers(data) /\ ~wp
        THEN /\ last' = Fails("importData", i, EmptyObj, jsonString, QuotaExceeded)
             /\ UNCHANGED localStorage
        ELSE IF truthySettings(data) /\ ~ws
        THEN /\ last' = Fails("importData", i, EmptyObj, jsonString, QuotaExceeded)
             /\ localStorage' = ls1
        ELSE /\ localStorage' = ls2
             /\ last' = Notifies("importData", i, EmptyObj, jsonString, dataHandler[i],
                                 IF truthyPlayers(data) THEN data.players ELSE ArrayOf(<<>>))
     /\ UNCHANGED <<initialized, dataHandler>>

\* storage.js:363-371
getStats(i) ==
  /\ last' = [NoCall EXCEPT !.op = "getStats", !.inst = i, !.ready = initialized[i],
                            !.afterClear = (last.op = "clearAll"),
                            !.data = getAllPlayers(localStorage)]
  /\ UNCHANGED <<localStorage, initialized, dataHandler>>

\* ----------------------------------------------------------- mode manager

\* the resolution as a slip would have it: the service of the call before is
\* returned again
cachedService ==
  IF answer.service # "none" THEN answer.service
  ELSE IF mode = "online" /\ dataSdk THEN RemoteService
  ELSE IF mode = "auto" /\ dataSdk /\ onlineAvailable THEN RemoteService
  ELSE LocalService

\* storage.js:388-401
getActiveService ==
  IF mode = "online" /\ dataSdk THEN RemoteService
  ELSE IF mode = "auto" /\ dataSdk /\ onlineAvailable THEN RemoteService
  ELSE LocalService

\* storage.js:454-456: window.getActiveStorage()
getActiveStorage ==
  /\ answer' = Asked("getActiveService", "", TRUE, getActiveService)
  /\ UNCHANGED <<mode, onlineAvailable, dataSdk>>

\* the test of setMode as a slip would have it: any value is accepted
anyMode(m) == TRUE

\* ['auto', 'online', 'offline'].includes(mode)
recognized(m) == m \in Modes

\* storage.js:406-415
setMode(m) ==
  /\ mode' = IF recognized(m) THEN m ELSE mode
  /\ answer' = Asked("setMode", m, recognized(m), "none")
  /\ UNCHANGED <<onlineAvailable, dataSdk>>

\* storage.js:420-433
checkOnlineAvailability ==
  /\ onlineAvailable' = dataSdk
  /\ answer' = Asked("checkOnlineAvailability", "", dataSdk, "none")
  /\ UNCHANGED <<mode, dataSdk>>

\* storage.js:438-446; stats: what this.offlineService.getStats() counts
getInfo ==
  /\ answer' = [Asked("getInfo", "", TRUE, getActiveService)
                  EXCEPT !.stats = getAllPlayers(localStorage)]
  /\ UNCHANGED <<mode, onlineAvailable, dataSdk>>

\* the page binds window.dataSdk (the remote script has loaded) or unbinds it
bindDataSdk(bound) ==
  /\ dataSdk' = bound
  /\ UNCHANGED <<mode, onlineAvailable, answer>>

\* ------------------------------------------------------------ environment

\* the texts importData is handed, besides the latest exported text
ADate == CHOOSE d \in Dates : TRUE
SnapFull == StringifySnapshot(TRUE, ArrayOf(<<R("x1", "A")>>), TRUE, Dark, ADate)
SnapEmpty == StringifySnapshot(TRUE, ArrayOf(<<>>), FALSE, EmptyObj, ADate)
SnapSettingsOnly == StringifySnapshot(FALSE, NotArray, TRUE, Dark, ADate)
SnapNotArray == StringifySnapshot(TRUE, NotArray, FALSE, EmptyObj, ADate)
SnapDuplicates ==
  StringifySnapshot(TRUE, ArrayOf(<<R("x1", "A"), R("x1", "B")>>), FALSE, EmptyObj, ADate)
SnapNoId ==
  StringifySnapshot(TRUE, ArrayOf(<<WithField(EmptyObj, "name", "A")>>), FALSE, EmptyObj, ADate)
TextTruncated == <<"{", "players", "[">>
TextNull == <<"null">>

ImportPayloads ==
  {SnapFull, SnapEmpty, SnapSettingsOnly, SnapNotArray, SnapDuplicates, SnapNoId,
   TextTruncated, TextNull}

\* what the application does with the text of an export during a later call:
\* it keeps it, or it has dropped it
Retains(keep) ==
  /\ exported' = IF keep THEN exported ELSE <<>>
  /\ exportedFrom' = IF keep THEN exportedFrom ELSE EmptyObj

\* every call leaves the store as it was in `before`; a call of the store made
\* and awaited on its own leaves the mode manager alone and no promise pending
Observed == before' = localStorage /\ UNCHANGED managerVars
Called == Observed /\ UNCHANGED asyncVars

\* the outcomes of a setItem that a call makes only when `made` holds
Outcomes(made, writes) == IF made THEN writes ELSE {TRUE}

\* the calls the application makes.  insts: the instances it uses; records: the
\* records it submits; writes: the outcomes a setItem may have; handlers: what
\* init may be handed; payloads: the texts importData may be handed besides the
\* exported one; keep: whether an exported text outlives the next call
Calls(insts, records, writes, handlers, payloads, keep) ==
  \/ \E i \in insts, h \in handlers :
       init(i, h) /\ Retains(keep) /\ Called
  \/ \E i \in insts, record \in records, id \in generateId, w \in writes :
       create(i, record, id, w) /\ Retains(keep) /\ Called
  \/ \E i \in insts, record \in records, w \in writes :
       update(i, record, w) /\ Retains(keep) /\ Called
  \/ \E i \in insts, record \in records, w \in writes :
       delete(i, record, w) /\ Retains(keep) /\ Called
  \/ \E i \in insts :
       read(i) /\ Retains(keep) /\ Called
  \/ \E i \in insts, wp \in writes,
        ws \in Outcomes(~hasItem(localStorage, SETTINGS), writes) :
       clearAll(i, wp, ws) /\ Retains(keep) /\ Called
  \/ \E i \in insts, date \in Dates :
       exportData(i, date) /\ Called
  \/ \E i \in insts, jsonString \in payloads \cup ({exported} \ {<<>>}) :
       \E wp \in Outcomes(truthyPlayers(ParseSnapshot(jsonString)), writes),
          ws \in Outcomes(truthySettings(ParseSnapshot(jsonString)), writes) :
         importData(i, jsonString, wp, ws) /\ Retains(keep) /\ Called
  \/ \E i \in insts :
       getStats(i) /\ Retains(keep) /\ Called

\* localStorage always accepts a write and no handler throws
Next == Calls({"offlineStorage"}, Records, {TRUE}, GoodHandlers, ImportPayloads, FALSE)

Spec == Init /\ [][Next]_vars

\* a write may exceed the quota, and a handler may throw
NextFault == Calls({"offlineStorage"}, Records, BOOLEAN, AllHandlers, ImportPayloads, FALSE)

SpecFault == Init /\ [][NextFault]_vars



\* the application keeps the text of an export through later calls; it submits
\* two of the records and imports, besides the exported text, a snapshot that
\* holds settings alone and one whose players field is no array
KeepRecords == {r \in Records : "name" \in DOMAIN r => ~HasId(r)}
KeepPayloads == {SnapSettingsOnly, SnapNotArray}

NextKeep == Calls({"offlineStorage"}, KeepRecords, {TRUE}, GoodHandlers, KeepPayloads, TRUE)

SpecKeep == Init /\ [][NextKeep]_vars

\* only init, create, update, delete and read are called, on a store that
\* starts empty; a write may fail and a handler may throw
CrudCalls(insts, writes, handlers) ==
  \/ \E i \in insts, h \in handlers :
       init(i, h) /\ Retains(FALSE) /\ Called
  \/ \E i \in insts, record \in Records, id \in generateId, w \in writes :
       create(i, record, id, w) /\ Retains(FALSE) /\ Called
  \/ \E i \in insts, record \in Records, w \in writes :
       update(i, record, w) /\ Retains(FALSE) /\ Called
  \/ \E i \in insts, record \in Records, w \in writes :
       delete(i, record, w) /\ Retains(FALSE) /\ Called
  \/ \E i \in insts :
       read(i) /\ Retains(FALSE) /\ Called

NextCrud == CrudCalls({"offlineStorage"}, BOOLEAN, AllHandlers)

SpecCrud == Init /\ [][NextCrud]_vars

\* both instances in use: window.offlineStorage, and the mode manager's
\* offlineService whenever window.getActiveStorage() resolves to it; every
\* write succeeds and no handler throws
NextTwo ==
  CrudCalls({"offlineStorage"} \cup ({getActiveService} \ {RemoteService}),
            {TRUE}, GoodHandlers)

SpecTwo == Init /\ [][NextTwo]_vars

\* texts that JSON.parse rejects
Unreadable == {<<"[", "{">>}

\* storage.js:104-110: the players item is shared with the rest of the page;
\* here something else leaves a text under it that cannot be decoded
tamper(text) ==
  /\ localStorage' = setItem(localStorage, PLAYERS, text)
  /\ UNCHANGED <<initialized, dataHandler, exported, exportedFrom, last, before>>
  /\ UNCHANGED managerVars
  /\ UNCHANGED asyncVars

\* init, create, update, delete and read on a store whose players item may be
\* overwritten with an unreadable text between two calls
NextTamper ==
  \/ CrudCalls({"offlineStorage"}, BOOLEAN, AllHandlers)
  \/ \E text \in Unreadable : tamper(text)

SpecTamper == Init /\ [][NextTamper]_vars

\* the store's code that runs when a promise settles, as a slip would have
\* it: the write of the collection is put off until then
resumeWrites(ls, promise) == setItem(ls, PLAYERS, promise.wrote)

\* storage.js:153-267: no method holds an await, so the whole body has run when
\* the call returns its promise, and no code of the store runs when the
\* promise settles
resume(ls, promise) == ls

\* the call `call`, made without awaiting the calls before it: its promise
\* joins the pending ones.  wrote: the players text as the body left it
issue(call) ==
  /\ pending = <<>> \/ Len(issued) < MaxCalls
  /\ issued' = IF pending = <<>> THEN <<call>> ELSE Append(issued, call)
  /\ base' = IF pending = <<>> THEN getAllPlayers(localStorage) ELSE base
  /\ pending' = Append(pending, [wrote |-> localStorage'[PLAYERS]])
  /\ Retains(FALSE)
  /\ Observed

\* the oldest pending promise settles: the caller's continuation runs
settle ==
  /\ pending # <<>>
  /\ localStorage' = resume(localStorage, Head(pending))
  /\ pending' = Tail(pending)
  /\ UNCHANGED <<initialized, dataHandler, exported, exportedFrom, last, before, issued, base>>
  /\ UNCHANGED managerVars

\* create, update and delete called back to back, each promise settling
\* later; init is awaited and registers a handler that returns.  The records
\* submitted are one without identifier and one that carries an identifier
NextAsync ==
  \/ \E h \in {"listens"} :
       pending = <<>> /\ init("offlineStorage", h) /\ Retains(FALSE) /\ Called
  \/ \E record \in KeepRecords, id \in generateId :
       /\ create("offlineStorage", record, id, TRUE)
       /\ issue([op |-> "create", rec |-> record, id |-> id,
                 ready |-> initialized["offlineStorage"]])
  \/ \E record \in KeepRecords :
       /\ update("offlineStorage", record, TRUE)
       /\ issue([op |-> "update", rec |-> record, id |-> "",
                 ready |-> initialized["offlineStorage"]])
  \/ \E record \in KeepRecords :
       /\ delete("offlineStorage", record, TRUE)
       /\ issue([op |-> "delete", rec |-> record, id |-> "",
                 ready |-> initialized["offlineStorage"]])
  \/ settle

SpecAsync == Init /\ [][NextAsync]_vars

\* what setMode is handed: the three modes, the names the design documents
\* give two of them, and a value that is no mode
ModeInputs == Modes \cup {"online-forced", "bogus"}

\* a call of the mode manager leaves the store and its instances alone
Managed ==
  /\ UNCHANGED <<localStorage, initialized, dataHandler, exported, exportedFrom, last, before>>
  /\ UNCHANGED asyncVars

\* the calls the application makes of the mode manager, while the page binds
\* and unbinds the remote backend
NextMode ==
  \/ getActiveStorage /\ Managed
  \/ \E m \in ModeInputs : setMode(m) /\ Managed
  \/ checkOnlineAvailability /\ Managed
  \/ getInfo /\ Managed
  \/ \E bound \in BOOLEAN : bindDataSdk(bound) /\ Managed

SpecMode == Init /\ [][NextMode]_vars

\* ----------------------------------------------------------------- claims

\* the persisted collection, as a reader of the players key sees it
Persisted == getAllPlayers(localStorage)

IdsOf(items) == {items[j]["__backendId"] : j \in {k \in 1..Len(items) : HasId(items[k])}}

\* every record carries an identifier and no two carry the same
UniquelyIdentified(items) ==
  /\ \A j \in 1..Len(items) : HasId(items[j])
  /\ \A j, k \in 1..Len(items) : SameId(items[j], items[k]) => j = k

Mutators == {"create", "update", "delete"}

\* the replay of one call on an ordered list
ReplayCreate(list, record, id) == Append(list, WithField(record, "__backendId", id))
ReplayUpdate(list, record) ==
  [j \in 1..Len(list) |-> IF SameId(list[j], record) THEN record ELSE list[j]]
ReplayDelete(list, record) == SelectSeq(list, LAMBDA p : ~SameId(p, record))

\* the list after the call `call` (a value of last), applied or not
Replayed(list, call, applied, after) ==
  IF ~applied THEN after = list
  ELSE IF call.op = "create"
       THEN \E id \in Ids : after = ReplayCreate(list, call.rec, id)
  ELSE IF call.op = "update" THEN after = ReplayUpdate(list, call.rec)
  ELSE after = ReplayDelete(list, call.rec)

\* the call appended a record under an identifier that was in use
Collided(list, after) ==
  /\ Len(after) = Len(list) + 1
  /\ HasId(after[Len(after)])
  /\ after[Len(after)]["__backendId"] \in IdsOf(list)

\* the persisted collection when the latest call was made
Before == getAllPlayers(before)

Unknown(items, record) == \A j \in 1..Len(items) : ~SameId(items[j], record)

\* C2: update on an initialized store with an identifier that matches no record
\* of the persisted collection returns a failure, leaves the store as it was and
\* does not call the change handler.
C2_UpdateUnknown ==
  (/\ last.op = "update"
   /\ last.ready
   /\ HasId(last.rec)
   /\ Unknown(Before.items, last.rec))
    => /\ ~last.ok
       /\ localStorage = before
       /\ ~last.notified

\* C2 witness: an update with an unknown identifier on a collection that holds
\* a record, with a handler registered
C2_Witness ==
  /\ last.op = "update"
  /\ last.ready
  /\ HasId(last.rec)
  /\ Before.items # <<>>
  /\ Unknown(Before.items, last.rec)
  /\ dataHandler[last.inst] = "listens"

\* C3: delete on an initialized store with an identifier that matches no record
\* of the persisted collection returns a failure, leaves the store as it was and
\* does not call the change handler.
C3_DeleteUnknown ==
  (/\ last.op = "delete"
   /\ last.ready
   /\ HasId(last.rec)
   /\ Unknown(Before.items, last.rec))
    => /\ ~last.ok
       /\ localStorage = before
       /\ ~last.notified

\* C3 witness: a delete with an unknown identifier on a collection that holds a
\* record without identifier, with a handler registered
C3_Witness ==
  /\ last.op = "delete"
  /\ last.ready
  /\ HasId(last.rec)
  /\ Before.items # <<>>
  /\ ~HasId(Before.items[1])
  /\ Unknown(Before.items, last.rec)
  /\ dataHandler[last.inst] = "listens"

Crud == {"read", "create", "update", "delete"}
Maintenance == {"clearAll", "importData", "exportData"}

\* C4: on an instance on which init was never called, read, create, update and
\* delete return a failure that carries the not-initialized error, leave the
\* store as it was and call no change handler.
C4_NotInitialized ==
  (last.op \in Crud /\ ~last.ready)
    => /\ ~last.ok
       /\ last.err = NotInitialized
       /\ localStorage = before
       /\ ~last.notified

\* C4 witness: a create on an instance never initialized, on a store that holds
\* a record
C4_Witness ==
  /\ last.op = "create"
  /\ ~last.ready
  /\ ~initialized[last.inst]
  /\ Persisted.items # <<>>

\* C5 as stated: every operation other than init, the maintenance operations
\* included, called before init fails with the not-initialized error and leaves
\* the persisted state as it was.
C5_AllNeedInit ==
  (last.op \in Crud \cup Maintenance /\ ~last.ready)
    => /\ ~last.ok
       /\ last.err = NotInitialized
       /\ localStorage = before

\* C5 amended: read, create, update and delete called before init fail with the
\* not-initialized error and leave the persisted state as it was; clearAll,
\* importData and exportData do not look at the initialized flag: they never
\* report that error, and a clearAll called before init that returns true has
\* emptied the collection and removed the current-player item.
C5_CrudNeedsInit ==
  /\ (last.op \in Crud /\ ~last.ready)
       => (~last.ok /\ last.err = NotInitialized /\ localStorage = before)
  /\ (last.op \in Maintenance /\ ~last.ready) => last.err # NotInitialized
  /\ (last.op = "clearAll" /\ ~last.ready /\ last.ok)
       => /\ Persisted = ArrayOf(<<>>)
          /\ CURRENT_PLAYER \notin DOMAIN localStorage

\* C5 witness: a clearAll called before init has emptied a collection that held
\* a record
C5_Witness ==
  /\ last.op = "clearAll"
  /\ ~last.ready
  /\ last.ok
  /\ Before.items # <<>>
  /\ Persisted = ArrayOf(<<>>)

\* the settings a reader of the settings key sees in the store ls
SettingsOf(ls) ==
  IF hasItem(ls, SETTINGS) THEN ParseSettings(ls[SETTINGS]).val ELSE EmptyObj

\* the latest call was an importData of the text an earlier exportData returned
ImportedExport == last.op = "importData" /\ exported # <<>> /\ last.text = exported

\* C6: importData of the text s that an exportData returned, after any calls in
\* between, returns true and leaves the persisted collection equal to the
\* collection that was exported (same records, same order), and the settings
\* equal to the exported settings.
C6_RoundTrip ==
  ImportedExport
    => /\ last.ok
       /\ Persisted = getAllPlayers(exportedFrom)
       /\ SettingsOf(localStorage) = SettingsOf(exportedFrom)

\* C6 witness: the import replaced a collection and settings that both differed
\* from the exported ones, and the exported collection held two records
C6_Witness ==
  /\ ImportedExport
  /\ Len(getAllPlayers(exportedFrom).items) = 2
  /\ Before # getAllPlayers(exportedFrom)
  /\ SettingsOf(before) # SettingsOf(exportedFrom)

\* the empty collection makes the round trip too: the exported collection was
\* empty and the import emptied a collection that held a record
C6_WitnessEmpty ==
  /\ ImportedExport
  /\ getAllPlayers(exportedFrom) = ArrayOf(<<>>)
  /\ Before.items # <<>>
  /\ Persisted = ArrayOf(<<>>)

\* C7 as stated: after a clearAll in any prior state the following read returns
\* success with an empty sequence, and the clearAll called the change handler
\* with an empty sequence.
C7_ClearThenReadAsStated ==
  /\ (last.op = "read" /\ last.afterClear) => (last.ok /\ last.data = ArrayOf(<<>>))
  /\ last.op = "clearAll" => (last.notified /\ last.payload = ArrayOf(<<>>))

\* C7 amended: after a clearAll the following read on an initialized instance
\* returns success with an empty sequence; and a clearAll that returns true on
\* an instance whose init registered a handler called that handler with an
\* empty sequence.
C7_ClearThenRead ==
  /\ (last.op = "read" /\ last.afterClear /\ last.ready)
       => (last.ok /\ last.data = ArrayOf(<<>>))
  /\ (last.op = "clearAll" /\ last.ok /\ dataHandler[last.inst] # NoHandler)
       => (last.notified /\ last.payload = ArrayOf(<<>>))

\* C7 witness: a clearAll emptied a collection that held a record and notified
\* the handler
C7_Witness ==
  /\ last.op = "clearAll"
  /\ last.ok
  /\ last.notified
  /\ Before.items # <<>>

\* the read that follows a clearAll on an instance initialized with a handler
C7_WitnessRead ==
  /\ last.op = "read"
  /\ last.afterClear
  /\ last.ready
  /\ dataHandler[last.inst] = "listens"

\* C8: in every reachable state every record of the persisted collection carries
\* an identifier and no two records carry the same.
C8_UniqueIds == UniquelyIdentified(Persisted.items)

\* C9: in every reachable state the text under the players key is the
\* serialization of a sequence of records.
C9_ValidSerialization ==
  /\ PLAYERS \in DOMAIN localStorage
  /\ ParsePlayers(localStorage[PLAYERS]).ok
  /\ ParsePlayers(localStorage[PLAYERS]).val.isArray

\* C10: every call of onDataChanged passes the full persisted collection as it
\* is at that moment.
C10_NotifiesPersisted == last.notified => last.payload = Persisted

\* the resolution rule: remote when the mode is online and a remote binding is
\* present, or when the mode is auto, a binding is present and the flag is true
Resolution(m, bound, flag) ==
  IF bound /\ (m = "online" \/ (m = "auto" /\ flag)) THEN RemoteService ELSE LocalService

\* C11: every getActiveService returns what the resolution rule gives for the
\* mode, the remote binding and the cached availability flag as they are when
\* the call is made: the remote backend when mode is online and a binding is
\* present, or mode is auto, a binding is present and the flag is true; the
\* local store in every other case.  No earlier decision is returned again.
C11_Resolution ==
  answer.op = "getActiveService"
    => answer.service = Resolution(answer.modeWas, answer.sdkWas, answer.flagWas)

\* C11 witness: a call in auto mode returns the local store although a remote
\* binding is present, because the flag is false
C11_Witness ==
  /\ answer.op = "getActiveService"
  /\ answer.modeWas = "auto"
  /\ answer.sdkWas
  /\ ~answer.flagWas
  /\ answer.service = LocalService

\* a call in auto mode with the flag true returns the local store, because the
\* binding present at the probe has gone since
C11_WitnessStaleFlag ==
  /\ answer.op = "getActiveService"
  /\ answer.modeWas = "auto"
  /\ ~answer.sdkWas
  /\ answer.flagWas
  /\ answer.service = LocalService

\* C12: setMode with a value that is not one of auto, online, offline returns
\* false and leaves the mode and the availability flag as they were; with one
\* of the three it returns true, sets the mode to it and leaves the flag as it
\* was.
C12_SetMode ==
  answer.op = "setMode"
    => /\ onlineAvailable = answer.flagWas
       /\ IF answer.arg \in {"auto", "online", "offline"}
          THEN answer.ret /\ mode = answer.arg
          ELSE ~answer.ret /\ mode = answer.modeWas

\* C12 witness: setMode("bogus") was rejected in online mode with the flag true
C12_Witness ==
  /\ answer.op = "setMode"
  /\ answer.arg = "bogus"
  /\ answer.modeWas = "online"
  /\ answer.flagWas
  /\ mode = "online"

\* the text under the players key of the store ls can be decoded
Decodable(ls) == hasItem(ls, PLAYERS) => ParsePlayers(ls[PLAYERS]).ok

\* the collection that the text under the players key of ls encodes
Encoded(ls) == IF hasItem(ls, PLAYERS) THEN ParsePlayers(ls[PLAYERS]).val ELSE ArrayOf(<<>>)

\* C13 as stated: read returns a failure exactly when the instance is not
\* initialized or the text under the players key cannot be decoded, and success
\* with the full persisted collection in every other state.
C13_ReadFailsAsStated ==
  last.op = "read"
    => /\ ~last.ok <=> (~last.ready \/ ~Decodable(before))
       /\ last.ok => last.data = Encoded(before)

\* C13 amended: read returns a failure exactly when the instance is not
\* initialized, with the not-initialized error.  On an initialized instance it
\* returns success: with the full persisted collection when the text under the
\* players key can be decoded, and with an empty sequence when it cannot.
C13_ReadFails ==
  last.op = "read"
    => /\ ~last.ok <=> ~last.ready
       /\ ~last.ok => last.err = NotInitialized
       /\ last.ok => last.data = IF Decodable(before) THEN Encoded(before) ELSE ArrayOf(<<>>)

\* C13 witness: a read on an initialized instance, of a store whose players
\* text cannot be decoded, returned success
C13_Witness ==
  /\ last.op = "read"
  /\ last.ready
  /\ ~Decodable(before)
  /\ last.ok

\* C14: no call lets an exception reach its caller, and after a failed call the
\* store is as usable as before: the read that follows a failed call on an
\* initialized instance returns what it would have returned had the failed call
\* not been made, the collection persisted before that call.
C14_UsableAfterFailure ==
  [][(/\ last.op # "none"
      /\ ~last.ok
      /\ last.ready
      /\ last'.op = "read")
       => (last'.ok /\ last'.data = getAllPlayers(before))]_vars

\* C15: when the write of the collection fails during create, update or delete
\* on an initialized store, the call returns a failure, the store stays as it
\* was before the call and the change handler is not called; and whenever the
\* handler is called the store holds the serialization of the collection it
\* is handed, the write having succeeded.
C15_WriteFailure ==
  (last.op \in Mutators /\ last.ready)
    => /\ last.err = SaveFailed
            => (~last.ok /\ localStorage = before /\ ~last.notified)
       /\ last.notified
            => /\ last.err # SaveFailed
               /\ hasItem(localStorage, PLAYERS)
               /\ localStorage[PLAYERS] = StringifyPlayers(last.payload)

\* C15 witness: the write of an update of a record the collection holds failed,
\* with a handler registered
C15_Witness ==
  /\ last.op = "update"
  /\ last.ready
  /\ last.err = SaveFailed
  /\ ~Unknown(Before.items, last.rec)
  /\ dataHandler[last.inst] = "listens"

\* C16: a successful update replaces the first entry that carries the
\* identifier of the submitted record by that record, at the same position: the
\* collection keeps its length, every other entry is as it was, and the entry
\* has the fields of the submitted record and no others.
C16_UpdateInPlace ==
  (last.op = "update" /\ last.ok)
    => /\ Before.isArray
       /\ Persisted.isArray
       /\ Len(Persisted.items) = Len(Before.items)
       /\ \E j \in 1..Len(Before.items) :
            /\ SameId(Before.items[j], last.rec)
            /\ \A k \in 1..(j - 1) : ~SameId(Before.items[k], last.rec)
            /\ Persisted.items[j] = last.rec
            /\ DOMAIN Persisted.items[j] = DOMAIN last.rec
            /\ \A k \in 1..Len(Before.items) : k # j => Persisted.items[k] = Before.items[k]

\* C16 witness: the second of two records carried a name, the submitted record
\* carries the identifier alone, and the name is gone
C16_Witness ==
  /\ last.op = "update"
  /\ last.ok
  /\ Len(Before.items) = 2
  /\ SameId(Before.items[2], last.rec)
  /\ ~SameId(Before.items[1], last.rec)
  /\ "name" \in DOMAIN Before.items[2]
  /\ "name" \notin DOMAIN Persisted.items[2]
  /\ Persisted.items[1] = Before.items[1]

\* C18: whenever create, update or delete returns a failure, whatever the
\* cause, the persisted collection is the one persisted before the call.
C18_FailureChangesNothing ==
  (last.op \in Mutators /\ ~last.ok) => (Persisted = Before /\ localStorage = before)

\* the item under key is in the store as it was before the latest call
Kept(key) ==
  /\ key \in DOMAIN localStorage <=> key \in DOMAIN before
  /\ key \in DOMAIN before => localStorage[key] = before[key]

\* C20: create, update, delete, read, init, exportData and getStats leave the
\* settings item and the current-player item as they were; clearAll removes
\* the current-player item, empties the collection and leaves existing
\* settings as they were; importData leaves the settings as they were unless
\* its payload contains settings.
C20_SettingsFrame ==
  /\ last.op \in {"create", "update", "delete", "read", "init", "exportData", "getStats"}
       => (Kept(SETTINGS) /\ Kept(CURRENT_PLAYER))
  /\ last.op = "clearAll"
       => /\ CURRENT_PLAYER \notin DOMAIN localStorage
          /\ Persisted = ArrayOf(<<>>)
          /\ hasItem(before, SETTINGS) => Kept(SETTINGS)
  /\ (last.op = "importData" /\ ~ParseSnapshot(last.text).hasSettings) => Kept(SETTINGS)

\* C20 witness: a clearAll emptied a collection that held a record, removed the
\* current-player item and left imported settings in place
C20_Witness ==
  /\ last.op = "clearAll"
  /\ Before.items # <<>>
  /\ CURRENT_PLAYER \in DOMAIN before
  /\ SettingsOf(before) = Dark
  /\ SettingsOf(localStorage) = Dark
  /\ Persisted = ArrayOf(<<>>)

\* one call applied to an ordered list: create appends, update replaces the
\* first record that carries the identifier, delete drops every record that
\* carries it; a call on an instance that is not initialized changes nothing
Serial1(list, call) ==
  IF ~call.ready THEN list
  ELSE IF call.op = "create" THEN ReplayCreate(list, call.rec, call.id)
  ELSE IF call.op = "update"
       THEN [j \in 1..Len(list) |->
               IF SameId(list[j], call.rec) /\ Unknown(SubSeq(list, 1, j - 1), call.rec)
               THEN call.rec ELSE list[j]]
  ELSE ReplayDelete(list, call.rec)

\* the calls applied one after another, in issue order
RECURSIVE Serial(_, _)
Serial(list, calls) ==
  IF calls = <<>> THEN list ELSE Serial(Serial1(list, Head(calls)), Tail(calls))

\* the record that the create `call` made
Created(call) == WithField(call.rec, "__backendId", call.id)

\* a record that carries the identifier which the create `call` assigned is in
\* the persisted collection
Present(call) ==
  \E j \in 1..Len(Persisted.items) :
    HasId(Persisted.items[j]) /\ Persisted.items[j]["__backendId"] = call.id

\* a delete made after the k-th call names the identifier that the k-th, a
\* create, assigned
DeletedLater(k) ==
  \E m \in (k + 1)..Len(issued) :
    issued[m].op = "delete" /\ SameId(issued[m].rec, Created(issued[k]))

\* C17 as stated: when create, update and delete calls are made back to back
\* without awaiting, the persisted collection equals the result of applying the
\* calls one after another in issue order, and every record created by any of
\* them is present.
C17_NoLostUpdateAsStated ==
  /\ Persisted = ArrayOf(Serial(base.items, issued))
  /\ \A k \in 1..Len(issued) :
       (issued[k].op = "create" /\ issued[k].ready)
         => Present(issued[k])

\* C17 amended: the persisted collection equals the result of applying the
\* calls one after another in issue order, and every record created by one of
\* them is present unless a later one of them is a delete that names its
\* identifier.
C17_NoLostUpdate ==
  /\ Persisted = ArrayOf(Serial(base.items, issued))
  /\ \A k \in 1..Len(issued) :
       (issued[k].op = "create" /\ issued[k].ready /\ ~DeletedLater(k))
         => Present(issued[k])

\* C17 witness: a create, an update of the record it made and a second create
\* were made while the promise of the first was pending, and the collection
\* holds both records, the first as updated
C17_Witness ==
  /\ Len(issued) = 3
  /\ Len(pending) = 3
  /\ issued[1].op = "create" /\ issued[1].ready
  /\ issued[2].op = "update" /\ SameId(issued[2].rec, Created(issued[1]))
  /\ issued[3].op = "create" /\ issued[3].id # issued[1].id
  /\ base.items = <<>>
  /\ Persisted.items = <<issued[2].rec, Created(issued[3])>>

\* C19: window.offlineStorage and the local store that getActiveStorage()
\* returns are two instances over one persisted collection.  A read through
\* either initialized instance returns the persisted collection, so the one
\* that the other instance wrote and handed to its handler; a call through one
\* instance, init included, leaves the initialized flag and the handler of the
\* other as they were; and a call notifies only if a handler is registered on
\* the instance it is made through.
C19_TwoInstances ==
  [][/\ (last'.op = "read" /\ last'.ready)
          => /\ last'.ok
             /\ last'.data = getAllPlayers(localStorage)
             /\ (last.op \in Mutators /\ last.notified /\ last.inst # last'.inst)
                  => last'.data = last.payload
     /\ \A j \in Instances \ {last'.inst} :
          initialized'[j] = initialized[j] /\ dataHandler'[j] = dataHandler[j]
     /\ last'.notified => dataHandler'[last'.inst] # NoHandler]_vars

\* C19 witness: a mutation through the mode manager's instance, initialized
\* without handler, changed the collection and notified nobody, while a handler
\* is registered on window.offlineStorage
C19_Witness ==
  /\ last.op \in Mutators
  /\ last.ok
  /\ last.inst = LocalService
  /\ ~last.notified
  /\ Persisted # Before
  /\ initialized["offlineStorage"]
  /\ dataHandler["offlineStorage"] = "listens"

====
